---------------------------- MODULE Spec2Model ----------------------------
(***************************************************************************)
(* Frescobaldi: the MusicXML export builder (file_export/create_musicxml). *)
(*                                                                         *)
(* The builder object is modelled as its attribute dictionary: a record    *)
(* whose DOMAIN is the set of attributes that have been assigned so far    *)
(* (reading an attribute outside the DOMAIN is Python's AttributeError).   *)
(* The lxml element tree is a value; a reference to an element is the      *)
(* path of child indices that leads to it from the root.  Elements are     *)
(* only ever appended, so a path keeps naming the same element.            *)
(*                                                                         *)
(* The code is Python 2 (PyQt4, no "from __future__ import division"):     *)
(* "/" on two ints is floor division.                                      *)
(***************************************************************************)
EXTENDS Integers, Sequences, FiniteSets, TLC

VARIABLES xml,    \* the create_musicXML instance: attribute name -> value
          last,   \* the last call made: name, exception raised, value returned
          given,  \* the argument values the client passes in this run, per parameter
          app,    \* the application: its open documents and the files on disk
          panel,  \* the music view panel, its widget and the event loop's timers
          chooser \* the panel's DocumentChooserAction and the PDFs of the documents

vars == <<xml, last, given, app, panel, chooser>>

---------------------------------------------------------------------------
(* Bounds of the model *)

MaxElements == 5   \* part, measure, note, attributes and time-modification elements
MaxNumeral == 12   \* largest integer whose decimal numeral int() is asked to read
MaxDocuments == 2  \* documents open at the same time
MaxCalls == 5      \* calls made on documents in a run
MaxSlotCalls == 3  \* calls of decorated slots of the panel in a run
MaxNumber == 3     \* largest number given to a nameless document

---------------------------------------------------------------------------
(* Python values *)

None == << >>                     \* None, for arguments that are tuples otherwise
NoText == ""                      \* element.text is None
NoExc == ""                       \* the call returned normally
AttributeError == "AttributeError"
TypeError == "TypeError"
ZeroDivisionError == "ZeroDivisionError"

Digit(d) ==
    CASE d = 0 -> "0" [] d = 1 -> "1" [] d = 2 -> "2" [] d = 3 -> "3"
      [] d = 4 -> "4" [] d = 5 -> "5" [] d = 6 -> "6" [] d = 7 -> "7"
      [] d = 8 -> "8" [] d = 9 -> "9"

RECURSIVE NatStr(_)
NatStr(n) == IF n < 10 THEN Digit(n) ELSE NatStr(n \div 10) \o Digit(n % 10)

\* str() of an int: its decimal numeral
str(n) == IF n < 0 THEN "-" \o NatStr(0 - n) ELSE NatStr(n)

\* int() of a decimal numeral
int(s) == CHOOSE n \in 0..MaxNumeral : str(n) = s

---------------------------------------------------------------------------
(* lxml.etree *)

Element(tag, attrib) == [tag |-> tag, attrib |-> attrib, text |-> NoText, kids |-> << >>]

RECURSIVE At(_, _)
At(node, path) ==
    IF path = << >> THEN node ELSE At(node.kids[Head(path)], Tail(path))

RECURSIVE Put(_, _, _)
Put(node, path, new) ==
    IF path = << >> THEN new
    ELSE [node EXCEPT !.kids[Head(path)] = Put(@, Tail(path), new)]

\* the tree after etree.SubElement(parent, tag, attrib)
Append_(root, parent, elem) ==
    Put(root, parent, [At(root, parent) EXCEPT !.kids = Append(@, elem)])

\* the reference etree.SubElement(parent, ...) returns
NewChild(root, parent) == parent \o <<Len(At(root, parent).kids) + 1>>

\* the tree after element.text = text
SetText(root, path, text) ==
    Put(root, path, [At(root, path) EXCEPT !.text = text])

---------------------------------------------------------------------------
(* A call in progress: the object's attributes and the exception raised *)

NoRet == ""                       \* the call returned None

Call(obj) == [obj |-> obj, exc |-> NoExc, ret |-> NoRet]
Raised(r) == r.exc # NoExc
Raise(r, e) == IF Raised(r) THEN r ELSE [r EXCEPT !.exc = e]
Has(r, a) == a \in DOMAIN r.obj
SetAttr(r, a, v) ==
    [r EXCEPT !.obj = [x \in DOMAIN r.obj \cup {a} |-> IF x = a THEN v ELSE r.obj[x]]]

\* etree.SubElement(parent, tag, attrib) on the object's tree
SubElement(r, parent, tag, attrib) ==
    [r EXCEPT !.obj.root = Append_(@, parent, Element(tag, attrib))]

\* element.text = text
AssignText(r, path, text) == [r EXCEPT !.obj.root = SetText(@, path, text)]

---------------------------------------------------------------------------
(* class create_musicXML *)

ProductName == "Frescobaldi"

\* __init__ that writes MusicXML version 2.0
init_version_2 ==
    LET root0 == Element("score-partwise", <<<<"version", "2.0">>>>)
        root1 == Append_(root0, << >>, Element("identification", << >>))
        root2 == Append_(root1, <<1>>, Element("encoding", << >>))
        root3 == Append_(root2, <<1, 1>>, Element("software", << >>))
        root4 == SetText(root3, <<1, 1, 1>>, ProductName)
        root5 == Append_(root4, <<1, 1>>, Element("encoding-date", << >>))
        root6 == Append_(root5, << >>, Element("part-list", << >>))
    IN  [root |-> root6, partlist |-> NewChild(root5, << >>), part_count |-> 1]

\* __init__: the attributes of a new instance
init ==
    LET root0 == Element("score-partwise", <<<<"version", "3.0">>>>)
        root1 == Append_(root0, << >>, Element("identification", << >>))
        root2 == Append_(root1, <<1>>, Element("encoding", << >>))
        root3 == Append_(root2, <<1, 1>>, Element("software", << >>))
        root4 == SetText(root3, <<1, 1, 1>>, ProductName)
        root5 == Append_(root4, <<1, 1>>, Element("encoding-date", << >>))
        root6 == Append_(root5, << >>, Element("part-list", << >>))
    IN  [root |-> root6, partlist |-> NewChild(root5, << >>), part_count |-> 1]

\* create_part that numbers the part after counting it
create_part_id_after_count(r, name) ==
    LET id == "P" \o str(r.obj.part_count)
        id2 == "P" \o str(r.obj.part_count + 1)
        part == NewChild(r.obj.root, r.obj.partlist)
        r1 == SubElement(r, r.obj.partlist, "score-part", <<<<"id", id>>>>)
        r2 == SubElement(r1, part, "part-name", << >>)
        r3 == AssignText(r2, part \o <<1>>, name)
        current_part == NewChild(r3.obj.root, << >>)
        r4 == SubElement(r3, << >>, "part", <<<<"id", id2>>>>)
        r5 == SetAttr(r4, "current_part", current_part)
        r6 == SetAttr(r5, "part_count", r5.obj.part_count + 1)
    IN  SetAttr(r6, "bar_nr", 1)

\* create_part that counts the parts of each name apart
create_part_count_by_name(r, name) ==
    LET id == "P" \o str(IF name = "Cello" THEN 1 ELSE r.obj.part_count)
        part == NewChild(r.obj.root, r.obj.partlist)
        r1 == SubElement(r, r.obj.partlist, "score-part", <<<<"id", id>>>>)
        r2 == SubElement(r1, part, "part-name", << >>)
        r3 == AssignText(r2, part \o <<1>>, name)
        current_part == NewChild(r3.obj.root, << >>)
        r4 == SubElement(r3, << >>, "part", <<<<"id", id>>>>)
        r5 == SetAttr(r4, "current_part", current_part)
        r6 == SetAttr(r5, "part_count", r5.obj.part_count + 1)
    IN  SetAttr(r6, "bar_nr", 1)

\* create_part that forgets to restart the measure numbers
create_part_keep_bar_nr(r, name) ==
    LET id == "P" \o str(r.obj.part_count)
        part == NewChild(r.obj.root, r.obj.partlist)
        r1 == SubElement(r, r.obj.partlist, "score-part", <<<<"id", id>>>>)
        r2 == SubElement(r1, part, "part-name", << >>)
        r3 == AssignText(r2, part \o <<1>>, name)
        current_part == NewChild(r3.obj.root, << >>)
        r4 == SubElement(r3, << >>, "part", <<<<"id", id>>>>)
        r5 == SetAttr(r4, "current_part", current_part)
        r6 == SetAttr(r5, "part_count", r5.obj.part_count + 1)
    IN  IF Has(r6, "bar_nr") THEN r6 ELSE SetAttr(r6, "bar_nr", 1)

create_part(r, name) ==
    LET id == "P" \o str(r.obj.part_count)
        part == NewChild(r.obj.root, r.obj.partlist)
        r1 == SubElement(r, r.obj.partlist, "score-part", <<<<"id", id>>>>)
        partname == NewChild(r1.obj.root, part)
        r2 == SubElement(r1, part, "part-name", << >>)
        r3 == AssignText(r2, partname, name)
        current_part == NewChild(r3.obj.root, << >>)
        r4 == SubElement(r3, << >>, "part", <<<<"id", id>>>>)
        r5 == SetAttr(r4, "current_part", current_part)
        r6 == SetAttr(r5, "part_count", r5.obj.part_count + 1)
    IN  SetAttr(r6, "bar_nr", 1)

\* create_measure that falls back on the root while there is no part
create_measure_under_root(r) ==
    LET parent == IF Has(r, "current_part") THEN r.obj.current_part ELSE << >>
        bar_nr == IF Has(r, "bar_nr") THEN r.obj.bar_nr ELSE 1
        current_bar == NewChild(r.obj.root, parent)
        r1 == SubElement(r, parent, "measure", <<<<"number", str(bar_nr)>>>>)
        r2 == SetAttr(r1, "current_bar", current_bar)
    IN  SetAttr(r2, "bar_nr", bar_nr + 1)

create_measure(r) ==
    IF ~Has(r, "current_part") \/ ~Has(r, "bar_nr") THEN Raise(r, AttributeError)
    ELSE LET current_bar == NewChild(r.obj.root, r.obj.current_part)
             r1 == SubElement(r, r.obj.current_part, "measure",
                              <<<<"number", str(r.obj.bar_nr)>>>>)
             r2 == SetAttr(r1, "current_bar", current_bar)
         IN  SetAttr(r2, "bar_nr", r2.obj.bar_nr + 1)


(* Low-level node creation *)

create_note(r) ==
    IF Raised(r) THEN r
    ELSE IF ~Has(r, "current_bar") THEN Raise(r, AttributeError)
    ELSE LET current_note == NewChild(r.obj.root, r.obj.current_bar)
         IN  SetAttr(SubElement(r, r.obj.current_bar, "note", << >>),
                     "current_note", current_note)

add_pitch(r, step, alter, octave) ==
    IF Raised(r) THEN r
    ELSE IF ~Has(r, "current_note") THEN Raise(r, AttributeError)
    ELSE LET pitch == NewChild(r.obj.root, r.obj.current_note)
             r1 == SubElement(r, r.obj.current_note, "pitch", << >>)
             r2 == SubElement(r1, pitch, "step", << >>)
             r3 == AssignText(r2, pitch \o <<1>>, step)
             r4 == IF alter # 0
                   THEN AssignText(SubElement(r3, pitch, "alter", << >>),
                                   NewChild(r3.obj.root, pitch), str(alter))
                   ELSE r3
             octnode == NewChild(r4.obj.root, pitch)
         IN  AssignText(SubElement(r4, pitch, "octave", << >>), octnode, str(octave))

\* add_accidental that tells a flat by alter = -1 only
add_accidental_only_minus_one(r, alter) ==
    IF Raised(r) THEN r
    ELSE IF ~Has(r, "current_note") THEN Raise(r, AttributeError)
    ELSE LET acc == NewChild(r.obj.root, r.obj.current_note)
             r1 == SubElement(r, r.obj.current_note, "accidental", << >>)
         IN  IF alter = 0 - 1 THEN AssignText(r1, acc, "flat")
             ELSE IF alter = 1 THEN AssignText(r1, acc, "sharp")
             ELSE AssignText(r1, acc, "double-sharp")

add_accidental(r, alter) ==
    IF Raised(r) THEN r
    ELSE IF ~Has(r, "current_note") THEN Raise(r, AttributeError)
    ELSE LET acc == NewChild(r.obj.root, r.obj.current_note)
             r1 == SubElement(r, r.obj.current_note, "accidental", << >>)
         IN  IF alter > 0 THEN AssignText(r1, acc, "sharp")
             ELSE AssignText(r1, acc, "flat")

add_div_duration(r, divdur) ==
    IF Raised(r) THEN r
    ELSE IF ~Has(r, "current_note") THEN Raise(r, AttributeError)
    ELSE LET duration == NewChild(r.obj.root, r.obj.current_note)
             r1 == SubElement(r, r.obj.current_note, "duration", << >>)
             r2 == SetAttr(r1, "duration", duration)
         IN  AssignText(r2, duration, str(divdur))

\* change_div_duration that adds another duration element to the current note
change_div_duration_appends(r, newdura) ==
    IF Raised(r) THEN r
    ELSE IF ~Has(r, "duration") THEN Raise(r, AttributeError)
    ELSE add_div_duration(r, newdura)

change_div_duration(r, newdura) ==
    IF Raised(r) THEN r
    ELSE IF ~Has(r, "duration") THEN Raise(r, AttributeError)
    ELSE AssignText(r, r.obj.duration, str(newdura))

add_duration_type(r, durtype) ==
    IF Raised(r) THEN r
    ELSE IF ~Has(r, "current_note") THEN Raise(r, AttributeError)
    ELSE LET typenode == NewChild(r.obj.root, r.obj.current_note)
         IN  AssignText(SubElement(r, r.obj.current_note, "type", << >>),
                        typenode, durtype)

add_notations(r) ==
    IF Raised(r) THEN r
    ELSE IF ~Has(r, "current_note") THEN Raise(r, AttributeError)
    ELSE LET current_notation == NewChild(r.obj.root, r.obj.current_note)
         IN  SetAttr(SubElement(r, r.obj.current_note, "notations", << >>),
                     "current_notation", current_notation)

add_time_modify(r, fraction) ==
    IF Raised(r) THEN r
    ELSE IF ~Has(r, "current_note") THEN Raise(r, AttributeError)
    ELSE LET timemod_node == NewChild(r.obj.root, r.obj.current_note)
             r1 == SubElement(r, r.obj.current_note, "time-modification", << >>)
             r2 == SubElement(r1, timemod_node, "actual-notes", << >>)
             r3 == AssignText(r2, timemod_node \o <<1>>, fraction[1])
             r4 == SubElement(r3, timemod_node, "normal-notes", << >>)
         IN  AssignText(r4, timemod_node \o <<2>>, fraction[2])

add_tuplet_type(r, ttype) ==
    IF Raised(r) THEN r
    ELSE IF ~Has(r, "current_notation") THEN Raise(r, AttributeError)
    ELSE SubElement(r, r.obj.current_notation, "tuplet", <<<<"type", ttype>>>>)

create_bar_attr(r) ==
    IF Raised(r) THEN r
    ELSE IF ~Has(r, "current_bar") THEN Raise(r, AttributeError)
    ELSE LET bar_attr == NewChild(r.obj.root, r.obj.current_bar)
         IN  SetAttr(SubElement(r, r.obj.current_bar, "attributes", << >>),
                     "bar_attr", bar_attr)

add_divisions(r, div) ==
    IF Raised(r) THEN r
    ELSE IF ~Has(r, "bar_attr") THEN Raise(r, AttributeError)
    ELSE LET division == NewChild(r.obj.root, r.obj.bar_attr)
         IN  AssignText(SubElement(r, r.obj.bar_attr, "divisions", << >>),
                        division, str(div))

add_key(r, key, mode) ==
    IF Raised(r) THEN r
    ELSE IF ~Has(r, "bar_attr") THEN Raise(r, AttributeError)
    ELSE LET keynode == NewChild(r.obj.root, r.obj.bar_attr)
             r1 == SubElement(r, r.obj.bar_attr, "key", << >>)
             r2 == SubElement(r1, keynode, "fifths", << >>)
             r3 == AssignText(r2, keynode \o <<1>>, str(key))
             r4 == SubElement(r3, keynode, "mode", << >>)
         IN  AssignText(r4, keynode \o <<2>>, mode)

add_time(r, beats, beat_type) ==
    IF Raised(r) THEN r
    ELSE IF ~Has(r, "bar_attr") THEN Raise(r, AttributeError)
    ELSE LET timenode == NewChild(r.obj.root, r.obj.bar_attr)
             r1 == SubElement(r, r.obj.bar_attr, "time", << >>)
             r2 == SubElement(r1, timenode, "beats", << >>)
             r3 == AssignText(r2, timenode \o <<1>>, str(beats))
             r4 == SubElement(r3, timenode, "beat-type", << >>)
         IN  AssignText(r4, timenode \o <<2>>, str(beat_type))

add_clef(r, sign, line) ==
    IF Raised(r) THEN r
    ELSE IF ~Has(r, "bar_attr") THEN Raise(r, AttributeError)
    ELSE LET clefnode == NewChild(r.obj.root, r.obj.bar_attr)
             r1 == SubElement(r, r.obj.bar_attr, "clef", << >>)
             r2 == SubElement(r1, clefnode, "sign", << >>)
             r3 == AssignText(r2, clefnode \o <<1>>, sign)
             r4 == SubElement(r3, clefnode, "line", << >>)
         IN  AssignText(r4, clefnode \o <<2>>, str(line))

(* High-level node creation *)

\* new_note that leaves the builder as it was when it fails
new_note_undone_on_failure(r, pitch, org_len, durtype, divs) ==
    LET r1 == create_note(r)
        r2 == IF pitch = None THEN Raise(r1, TypeError)
              ELSE add_pitch(r1, pitch[1], pitch[2], pitch[3])
        r3 == IF int(org_len) = 0 THEN Raise(r2, ZeroDivisionError)
              ELSE add_div_duration(r2, (divs * 4) \div int(org_len))
        r4 == add_duration_type(r3, durtype)
    IN  IF Raised(r4) THEN Raise(r, r4.exc)
        ELSE IF pitch[2] # 0 THEN add_accidental(r4, pitch[2]) ELSE r4

\* new_note that takes zero divisions for a division fault
new_note_zero_divisions_fault(r, pitch, org_len, durtype, divs) ==
    LET r1 == create_note(r)
        r2 == IF pitch = None THEN Raise(r1, TypeError)
              ELSE add_pitch(r1, pitch[1], pitch[2], pitch[3])
        r3 == IF int(org_len) = 0 \/ divs = 0 THEN Raise(r2, ZeroDivisionError)
              ELSE add_div_duration(r2, (divs * 4) \div int(org_len))
        r4 == add_duration_type(r3, durtype)
    IN  IF ~Raised(r4) /\ pitch[2] # 0 THEN add_accidental(r4, pitch[2]) ELSE r4

\* new_note that takes the duration of a whole note to be one division
new_note_whole_is_division(r, pitch, org_len, durtype, divs) ==
    LET r1 == create_note(r)
        r2 == IF pitch = None THEN Raise(r1, TypeError)
              ELSE add_pitch(r1, pitch[1], pitch[2], pitch[3])
        r3 == IF int(org_len) = 0 THEN Raise(r2, ZeroDivisionError)
              ELSE add_div_duration(r2, divs \div int(org_len))
        r4 == add_duration_type(r3, durtype)
    IN  IF ~Raised(r4) /\ pitch[2] # 0 THEN add_accidental(r4, pitch[2]) ELSE r4

new_note(r, pitch, org_len, durtype, divs) ==
    LET r1 == create_note(r)
        r2 == IF pitch = None THEN Raise(r1, TypeError)
              ELSE add_pitch(r1, pitch[1], pitch[2], pitch[3])
        r3 == IF int(org_len) = 0 THEN Raise(r2, ZeroDivisionError)
              ELSE add_div_duration(r2, (divs * 4) \div int(org_len))
        r4 == add_duration_type(r3, durtype)
    IN  IF ~Raised(r4) /\ pitch[2] # 0 THEN add_accidental(r4, pitch[2]) ELSE r4

\* tuplet_note that takes a zero divisor for a duration of zero
tuplet_note_zero_is_zero(r, fraction, org_len, ttype, divs) ==
    LET a == divs * 4 * int(fraction[2])
        b == int(org_len) * int(fraction[1])
        r1 == IF b = 0 THEN change_div_duration(r, 0)
              ELSE change_div_duration(r, a \div b)
        r2 == add_time_modify(r1, fraction)
    IN  IF ~Raised(r2) /\ ttype # "" THEN add_tuplet_type(add_notations(r2), ttype)
        ELSE r2

\* tuplet_note that adds the notations element whatever the tuplet type
tuplet_note_always_notations(r, fraction, org_len, ttype, divs) ==
    LET a == divs * 4 * int(fraction[2])
        b == int(org_len) * int(fraction[1])
        r1 == IF b = 0 THEN Raise(r, ZeroDivisionError)
              ELSE change_div_duration(r, a \div b)
        r2 == add_time_modify(r1, fraction)
    IN  IF ~Raised(r2) THEN add_tuplet_type(add_notations(r2), ttype)
        ELSE r2

\* tuplet_note that rounds the duration to the nearest integer
tuplet_note_rounding(r, fraction, org_len, ttype, divs) ==
    LET a == divs * 4 * int(fraction[2])
        b == int(org_len) * int(fraction[1])
        r1 == IF b = 0 THEN Raise(r, ZeroDivisionError)
              ELSE change_div_duration(r, (2 * a + b) \div (2 * b))
        r2 == add_time_modify(r1, fraction)
    IN  IF ~Raised(r2) /\ ttype # "" THEN add_tuplet_type(add_notations(r2), ttype)
        ELSE r2

tuplet_note(r, fraction, org_len, ttype, divs) ==
    LET a == divs * 4 * int(fraction[2])
        b == int(org_len) * int(fraction[1])
        r1 == IF b = 0 THEN Raise(r, ZeroDivisionError)
              ELSE change_div_duration(r, a \div b)
        r2 == add_time_modify(r1, fraction)
    IN  IF ~Raised(r2) /\ ttype # "" THEN add_tuplet_type(add_notations(r2), ttype)
        ELSE r2

\* new_bar_attr that takes key 0 (no sharps or flats) for no key
new_bar_attr_key_truthy(r, clef, mustime, key, mode, divs) ==
    LET r1 == create_bar_attr(r)
        r2 == IF divs # 0 THEN add_divisions(r1, divs) ELSE r1
        r3 == IF key > 0 THEN add_key(r2, key, mode) ELSE r2
        r4 == IF mustime # None THEN add_time(r3, mustime[1], mustime[2]) ELSE r3
    IN  IF clef # None THEN add_clef(r4, clef[1], clef[2]) ELSE r4

new_bar_attr(r, clef, mustime, key, mode, divs) ==
    LET r1 == create_bar_attr(r)
        r2 == IF divs # 0 THEN add_divisions(r1, divs) ELSE r1
        r3 == IF key >= 0 THEN add_key(r2, key, mode) ELSE r2
        r4 == IF mustime # None THEN add_time(r3, mustime[1], mustime[2]) ELSE r3
    IN  IF clef # None THEN add_clef(r4, clef[1], clef[2]) ELSE r4

(* Create XML document: etree.tostring(root, pretty_print=True,          *)
(* xml_declaration=True, encoding='UTF-8')                                 *)

RECURSIVE Indent(_)
Indent(depth) == IF depth = 0 THEN "" ELSE "  " \o Indent(depth - 1)

RECURSIVE Attribs(_)
Attribs(attrib) ==
    IF attrib = << >> THEN ""
    ELSE " " \o Head(attrib)[1] \o "=\"" \o Head(attrib)[2] \o "\"" \o Attribs(Tail(attrib))

RECURSIVE Render(_, _)
RECURSIVE RenderAll(_, _)
Render(node, depth) ==
    LET open == Indent(depth) \o "<" \o node.tag \o Attribs(node.attrib)
    IN  IF node.kids # << >>
        THEN open \o ">\n" \o RenderAll(node.kids, depth + 1)
                  \o Indent(depth) \o "</" \o node.tag \o ">\n"
        ELSE IF node.text # NoText
        THEN open \o ">" \o node.text \o "</" \o node.tag \o ">\n"
        ELSE open \o "/>\n"
RenderAll(kids, depth) ==
    IF kids = << >> THEN ""
    ELSE Render(Head(kids), depth) \o RenderAll(Tail(kids), depth)

tostring(root) == "<?xml version='1.0' encoding='UTF-8'?>\n" \o Render(root, 0)

\* create_xmldoc that starts the part numbers over once the document is written
create_xmldoc_restarting(r) ==
    [r EXCEPT !.ret = tostring(r.obj.root), !.obj.part_count = 1]

create_xmldoc(r) == [r EXCEPT !.ret = tostring(r.obj.root)]

(* Counting elements of the tree *)

RECURSIVE Count(_, _)
RECURSIVE CountAll(_, _)
Count(node, tag) == (IF node.tag = tag THEN 1 ELSE 0) + CountAll(node.kids, tag)
CountAll(kids, tag) ==
    IF kids = << >> THEN 0 ELSE Count(Head(kids), tag) + CountAll(Tail(kids), tag)

---------------------------------------------------------------------------
(* Arguments.  A client draws the arguments of each call from the values   *)
(* it is given.  In Spec it is given a few typical values per parameter    *)
(* and mixes them freely.  In the other specifications it is given one     *)
(* value per parameter: in SpecNotes any combination of the ranges of the  *)
(* parameters of new_note, in SpecTuplets of those of tuplet_note, in      *)
(* SpecAttrs of those of new_bar_attr.                                     *)

Names == {"Violin", "Cello"}
Pitches == {None, <<"C", 0, 4>>, <<"F", 1, 4>>, <<"B", 0 - 1, 3>>, <<"G", 2, 5>>}
Lengths == {"0", "4", "8"}
Divisions == {0, 4, 12}
DurTypes == {"eighth"}
Fractions == {<<"3", "2">>, <<"0", "2">>}
TupletTypes == {"", "start"}
Clefs == {None, <<"G", 2>>}
Times == {None, <<4, 4>>}
Keys == {0 - 1, 0, 2}
Modes == {"major"}
Encodings == {"", "latin1"}

ScoreArguments ==
    [names |-> Names, pitches |-> {None, <<"F", 1, 4>>}, lengths |-> {"0", "8"},
     durtypes |-> DurTypes, divisions |-> {4}, fractions |-> {<<"3", "2">>},
     ttypes |-> {"start"}, clefs |-> {<<"G", 2>>}, times |-> {None},
     keys |-> {0 - 1}, modes |-> Modes, encodings |-> Encodings]

NoteArguments ==
    { [ScoreArguments EXCEPT !.names = {"Violin"}, !.pitches = {pitch},
                             !.lengths = {org_len}, !.divisions = {divs}] :
        pitch \in Pitches, org_len \in Lengths, divs \in Divisions }

TupletArguments ==
    { [ScoreArguments EXCEPT !.names = {"Violin"}, !.pitches = {<<"F", 1, 4>>},
                             !.lengths = {org_len}, !.divisions = {divs},
                             !.fractions = {fraction}, !.ttypes = {ttype}] :
        fraction \in Fractions, org_len \in Lengths, ttype \in TupletTypes,
        divs \in Divisions }

AttrArguments ==
    { [ScoreArguments EXCEPT !.names = {"Violin"}, !.pitches = {<<"F", 1, 4>>},
                             !.lengths = {"8"}, !.divisions = {divs},
                             !.clefs = {clef}, !.times = {mustime},
                             !.keys = {key}, !.modes = {mode}] :
        clef \in Clefs, mustime \in Times, key \in Keys, mode \in Modes,
        divs \in Divisions }

---------------------------------------------------------------------------
(* QUrl, files and text codecs (document.py) *)

QUrl(scheme, path) == [scheme |-> scheme, path |-> path]
EmptyUrl == QUrl("", "")            \* QUrl()
NoUrl == QUrl("None", "")           \* the argument url=None
isEmpty(u) == u.scheme = "" /\ u.path = ""
toLocalFile(u) == IF u.scheme = "file" THEN u.path ELSE ""

IOError == "IOError"

\* a text is a sequence of code points, a file a sequence of bytes
RECURSIVE encode_utf8(_)
encode_utf8(text) ==
    IF text = << >> THEN << >>
    ELSE LET cp == Head(text)
         IN  (IF cp < 128 THEN <<cp>> ELSE <<192 + (cp \div 64), 128 + (cp % 64)>>)
                \o encode_utf8(Tail(text))

\* whether the text can be encoded in latin1
encodable_latin1(text) == \A i \in 1..Len(text) : text[i] < 256

RECURSIVE valid_utf8(_)
valid_utf8(data) ==
    IF data = << >> THEN TRUE
    ELSE IF Head(data) < 128 THEN valid_utf8(Tail(data))
    ELSE /\ Head(data) \in 194..223
         /\ Len(data) >= 2
         /\ data[2] \in 128..191
         /\ valid_utf8(Tail(Tail(data)))

RECURSIVE decode_utf8(_)
decode_utf8(data) ==
    IF data = << >> THEN << >>
    ELSE IF Head(data) < 128 THEN <<Head(data)>> \o decode_utf8(Tail(data))
    ELSE <<(Head(data) - 192) * 64 + (data[2] - 128)>> \o decode_utf8(Tail(Tail(data)))

\* util.decode: the data as UTF-8, or as latin1 if it is not UTF-8
decode(data) == IF valid_utf8(data) THEN decode_utf8(data) ELSE data

---------------------------------------------------------------------------
(* class Document (document.py) *)

\* a call in progress on the application: its state, the exception raised
\* and what the call has done so far, in order
AppCall(a) == [app |-> a, exc |-> NoExc, trace |-> << >>]
Emit(c, what) == [c EXCEPT !.trace = Append(@, what)]

Max(S) == CHOOSE n \in S : \A m \in S : m <= n

\* the documents of app.documents
Open(a) == {a.documents[i] : i \in 1..Len(a.documents)}

\* QTextDocument.setModified; modificationChanged is connected to
\* slotModificationChanged
setModified(c, d, m) ==
    IF c.app.objects[d].modified = m THEN c
    ELSE Emit([c EXCEPT !.app.objects[d].modified = m],
              "app.documentModificationChanged")

\* setUrl that numbers a nameless document by counting the other nameless ones
setUrl_counts_nameless(c, d, url) ==
    LET url1 == IF url = NoUrl THEN EmptyUrl ELSE url
        old == c.app.objects[d].url
        changed == old # url1
        nameless == {doc \in Open(c.app) \ {d} : isEmpty(c.app.objects[doc].url)}
        num == IF isEmpty(url1) THEN Cardinality(nameless) + 1 ELSE 0
        c1 == Emit([c EXCEPT !.app.objects[d].url = url1,
                             !.app.objects[d].num = num], "setUrl")
    IN  IF changed THEN Emit(Emit(c1, "urlChanged"), "app.documentUrlChanged")
        ELSE c1

setUrl(c, d, url) ==
    LET url1 == IF url = NoUrl THEN EmptyUrl ELSE url
        old == c.app.objects[d].url
        changed == old # url1
        nums == {0} \cup {c.app.objects[doc].num : doc \in Open(c.app) \ {d}}
        num == IF isEmpty(url1) THEN Max(nums) + 1 ELSE 0
        c1 == Emit([c EXCEPT !.app.objects[d].url = url1,
                             !.app.objects[d].num = num], "setUrl")
    IN  IF changed THEN Emit(Emit(c1, "urlChanged"), "app.documentUrlChanged")
        ELSE c1

\* Document.encoding, for a text without a coding variable
encoding(c, d) == c.app.objects[d].encoding

encodedText(c, d) ==
    LET text == c.app.objects[d].text
    IN  IF encoding(c, d) = "latin1" /\ encodable_latin1(text) THEN text
        ELSE encode_utf8(text)

load(c, d, url, keepUndo) ==
    LET u == IF url # NoUrl THEN url ELSE c.app.objects[d].url
        filename == toLocalFile(u)
    IN  IF isEmpty(u) THEN c
        ELSE IF filename = "" THEN [c EXCEPT !.exc = IOError]
        ELSE IF filename \notin DOMAIN c.app.files THEN [c EXCEPT !.exc = IOError]
        ELSE LET text == decode(c.app.files[filename])
                 c1 == IF keepUndo
                       THEN setModified([c EXCEPT !.app.objects[d].text = text], d, TRUE)
                       ELSE setModified([c EXCEPT !.app.objects[d].text = text], d, FALSE)
                 c2 == IF url # NoUrl THEN setUrl(c1, d, url) ELSE c1
                 c3 == setModified(c2, d, FALSE)
             IN  Emit(Emit(c3, "loaded"), "app.documentLoaded")

\* save that makes the url the current url before it looks at it
save_url_first(c, d, url, written) ==
    LET u == IF url # NoUrl THEN url ELSE c.app.objects[d].url
        filename == toLocalFile(u)
        data == encodedText(c, d)
        c0 == Emit(c, "app.documentSaving.enter")
        c1 == IF url # NoUrl THEN setUrl(c0, d, url) ELSE c0
        exit(cx) == Emit(cx, "app.documentSaving.exit")
    IN  IF isEmpty(u) THEN c
        ELSE IF filename = "" THEN exit([c1 EXCEPT !.exc = IOError])
        ELSE IF written < 0 THEN exit([c1 EXCEPT !.exc = IOError])
        ELSE LET n == IF written < Len(data) THEN written ELSE Len(data)
                 files == [f \in DOMAIN c.app.files \cup {filename} |->
                              IF f = filename THEN SubSeq(data, 1, n)
                              ELSE c.app.files[f]]
                 c2 == Emit([c1 EXCEPT !.app.files = files], "write")
             IN  IF n < Len(data) THEN exit([c2 EXCEPT !.exc = IOError])
                 ELSE LET c4 == setModified(c2, d, FALSE)
                      IN  exit(Emit(Emit(c4, "saved"), "app.documentSaved"))

\* save that clears the modified flag before it makes the url current
save_clears_modified_first(c, d, url, written) ==
    LET u == IF url # NoUrl THEN url ELSE c.app.objects[d].url
        filename == toLocalFile(u)
        data == encodedText(c, d)
        c1 == Emit(c, "app.documentSaving.enter")
        exit(cx) == Emit(cx, "app.documentSaving.exit")
    IN  IF isEmpty(u) THEN c
        ELSE IF filename = "" THEN exit([c1 EXCEPT !.exc = IOError])
        ELSE IF written < 0 THEN exit([c1 EXCEPT !.exc = IOError])
        ELSE LET n == IF written < Len(data) THEN written ELSE Len(data)
                 files == [f \in DOMAIN c.app.files \cup {filename} |->
                              IF f = filename THEN SubSeq(data, 1, n)
                              ELSE c.app.files[f]]
                 c2 == Emit([c1 EXCEPT !.app.files = files], "write")
             IN  IF n < Len(data) THEN exit([c2 EXCEPT !.exc = IOError])
                 ELSE LET c3 == setModified(c2, d, FALSE)
                          c4 == IF url # NoUrl THEN setUrl(c3, d, url) ELSE c3
                      IN  exit(Emit(Emit(c4, "saved"), "app.documentSaved"))

\* written: how many bytes reach the file; -1 if the file cannot be opened
save(c, d, url, written) ==
    LET u == IF url # NoUrl THEN url ELSE c.app.objects[d].url
        filename == toLocalFile(u)
        data == encodedText(c, d)
        c1 == Emit(c, "app.documentSaving.enter")
        exit(cx) == Emit(cx, "app.documentSaving.exit")
    IN  IF isEmpty(u) THEN c
        ELSE IF filename = "" THEN exit([c1 EXCEPT !.exc = IOError])
        ELSE IF written < 0 THEN exit([c1 EXCEPT !.exc = IOError])
        ELSE LET n == IF written < Len(data) THEN written ELSE Len(data)
                 files == [f \in DOMAIN c.app.files \cup {filename} |->
                              IF f = filename THEN SubSeq(data, 1, n)
                              ELSE c.app.files[f]]
                 c2 == Emit([c1 EXCEPT !.app.files = files], "write")
             IN  IF n < Len(data) THEN exit([c2 EXCEPT !.exc = IOError])
                 ELSE LET c3 == IF url # NoUrl THEN setUrl(c2, d, url) ELSE c2
                          c4 == setModified(c3, d, FALSE)
                      IN  exit(Emit(Emit(c4, "saved"), "app.documentSaved"))

\* Document.__init__ for the new object d
Document(c, d, url, enc) ==
    LET url1 == IF url = NoUrl THEN EmptyUrl ELSE url
        self == [url |-> url1, num |-> 0, encoding |-> enc, text |-> << >>,
                 modified |-> FALSE]
        c1 == [c EXCEPT !.app.objects =
                  [o \in DOMAIN c.app.objects \cup {d} |->
                      IF o = d THEN self ELSE c.app.objects[o]]]
        c2 == load(setUrl(c1, d, url1), d, NoUrl, FALSE)
    IN  IF c2.exc # NoExc THEN [c EXCEPT !.exc = c2.exc]
        ELSE Emit([c2 EXCEPT !.app.documents = Append(@, d)], "app.documentCreated")

close(c, d) ==
    LET c1 == Emit(Emit(c, "closed"), "app.documentClosed")
        documents == SelectSeq(c1.app.documents, LAMBDA o : o # d)
    IN  [c1 EXCEPT !.app.documents = documents,
                   !.app.objects = [o \in DOMAIN c.app.objects \ {d} |-> c.app.objects[o]]]

documentName(a, d) ==
    IF isEmpty(a.objects[d].url)
    THEN IF a.objects[d].num = 1 THEN "Untitled"
         ELSE "Untitled (" \o str(a.objects[d].num) \o ")"
    ELSE a.objects[d].url.path

\* the application before any document is made; the disk has one file;
\* calls counts the calls made on documents
NewApplication ==
    app = [calls |-> 0,
           documents |-> << >>,
           objects |-> [d \in {} |-> << >>],
           files |-> [f \in {"/a.ly"} |-> <<195, 169>>]]

---------------------------------------------------------------------------
(* class MusicViewPanel and the activate decorator (musicview/__init__.py) *)

\* the @activate slots modelled, each with the view mode its body sets
Slots == {"zoomIn", "fitWidth", "fitBoth"}
ViewModes == {"FixedScale", "FitWidth", "FitHeight", "FitBoth"}

\* what happens in call nr is written to the panel's log, with whether the
\* widget exists at that time
Log(p, what, slot, nr) ==
    [p EXCEPT !.log = Append(@, [what |-> what, slot |-> slot, nr |-> nr,
                                 widget |-> p.widget])]

\* Panel.widget(): the widget, created if it does not exist yet
widget(p) == [p EXCEPT !.widget = TRUE]

\* Panel.activate(): shows the dock widget; showing it may create the widget
activate_panel(p, created) ==
    [p EXCEPT !.visible = TRUE, !.widget = @ \/ created]

\* the bodies of the slots: self.widget().view.zoomIn() and so on
func(p, slot) ==
    LET p1 == widget(p)
    IN  IF slot = "zoomIn" THEN [p1 EXCEPT !.viewMode = "FixedScale"]
        ELSE IF slot = "fitWidth" THEN [p1 EXCEPT !.viewMode = "FitWidth"]
        ELSE [p1 EXCEPT !.viewMode = "FitBoth"]

\* wrapper that looks for the widget after it has activated the panel
wrapper_looks_after_activate(p, slot, created) ==
    LET nr == p.calls + 1
        p0 == Log([p EXCEPT !.calls = nr], "call", slot, nr)
        p1 == Log(activate_panel(p0, created), "activate", slot, nr)
        instantiated == p1.widget
        p2 == IF instantiated
              THEN Log(func(p1, slot), "body", slot, nr)
              ELSE [p1 EXCEPT !.timers = Append(@, [slot |-> slot, nr |-> nr])]
    IN  Log(p2, "return", slot, nr)

\* the call of a decorated slot: wrapper(self)
wrapper(p, slot, created) ==
    LET nr == p.calls + 1
        p0 == Log([p EXCEPT !.calls = nr], "call", slot, nr)
        instantiated == p0.widget
        p1 == Log(activate_panel(p0, created), "activate", slot, nr)
        p2 == IF instantiated
              THEN Log(func(p1, slot), "body", slot, nr)
              ELSE [p1 EXCEPT !.timers = Append(@, [slot |-> slot, nr |-> nr])]
    IN  Log(p2, "return", slot, nr)

\* the event loop runs the callback of the first pending single-shot timer
timeout(p) ==
    LET timer == Head(p.timers)
        p1 == [p EXCEPT !.timers = Tail(@)]
    IN  Log(func(p1, timer.slot), "body", timer.slot, timer.nr)

(* The page layout mode and the orientation of the view.  Before the widget *)
(* exists they are the properties saved in the settings, which the view    *)
(* reads when it is created.                                               *)

Horizontal == "Horizontal"
Vertical == "Vertical"
PageLayoutModes == {"single", "double_left", "double_right", "raster"}
TwoPages == {"double_left", "double_right"}

\* the actions of the groups _music_layout_mode and _music_orientation
LayoutActions ==
    {"music_single_pages", "music_two_pages_first_left",
     "music_two_pages_first_right", "music_raster"}
OrientationActions == {"music_horizontal", "music_vertical"}

\* the actions that are checked are kept as a set
slotOrientationChanged(p, orientation) ==
    [p EXCEPT !.checked =
        (@ \ OrientationActions)
           \cup (IF orientation = Horizontal THEN {"music_horizontal"} ELSE {})
           \cup (IF orientation = Vertical THEN {"music_vertical"} ELSE {})]

slotPageLayoutModeChanged(p, mode) ==
    [p EXCEPT !.checked =
        (@ \ LayoutActions)
           \cup (IF mode = "double_left" THEN {"music_two_pages_first_left"} ELSE {})
           \cup (IF mode = "double_right" THEN {"music_two_pages_first_right"} ELSE {})
           \cup (IF mode = "raster" THEN {"music_raster"} ELSE {})
           \cup (IF mode = "single" THEN {"music_single_pages"} ELSE {})]

\* view.setPageLayoutMode and view.setOrientation: the property is set and,
\* if it is another value, the view's signal reaches the slot connected to it
setPageLayoutMode(p, mode) ==
    IF p.pageLayoutMode = mode THEN p
    ELSE slotPageLayoutModeChanged([p EXCEPT !.pageLayoutMode = mode], mode)

setOrientation(p, orientation) ==
    IF p.orientation = orientation THEN p
    ELSE slotOrientationChanged([p EXCEPT !.orientation = orientation], orientation)

slotSetPageLayoutMode(p, action, created) ==
    LET mode == IF action = "music_single_pages" THEN "single"
                ELSE IF action = "music_two_pages_first_left" THEN "double_left"
                ELSE IF action = "music_two_pages_first_right" THEN "double_right"
                ELSE IF action = "music_raster" THEN "raster"
                ELSE ""
        p1 == activate_panel(p, created)
        p2 == setPageLayoutMode(widget(p1), mode)
    IN  IF mode = "" THEN p
        ELSE IF mode \in TwoPages THEN setOrientation(widget(p2), Vertical)
        ELSE p2

\* slotSetOrientation that leaves the page layout mode alone
slotSetOrientation_keeps_layout(p, action, created) ==
    LET p1 == activate_panel(p, created)
    IN  IF action = "music_horizontal"
        THEN setOrientation(widget(p1), Horizontal)
        ELSE setOrientation(widget(p1), Vertical)

slotSetOrientation(p, action, created) ==
    LET p1 == activate_panel(p, created)
    IN  IF action = "music_horizontal"
        THEN LET p2 == IF widget(p1).pageLayoutMode \in TwoPages
                       THEN setPageLayoutMode(widget(widget(p1)), "single")
                       ELSE widget(p1)
             IN  setOrientation(widget(p2), Horizontal)
        ELSE setOrientation(widget(p1), Vertical)

\* the panel as MusicViewPanel.__init__ leaves it, with these saved
\* properties: no widget yet, the actions checked as the properties say
PanelWith(orientation, pageLayoutMode) ==
    slotPageLayoutModeChanged(
        slotOrientationChanged(
            [widget |-> FALSE, visible |-> FALSE, viewMode |-> "FixedScale",
             timers |-> << >>, log |-> << >>, calls |-> 0,
             orientation |-> orientation, pageLayoutMode |-> pageLayoutMode,
             checked |-> {}],
            orientation),
        pageLayoutMode)

\* the panel when nothing has been saved: the defaults
NewPanel == panel = PanelWith(Vertical, "single")

---------------------------------------------------------------------------
(* class DocumentChooserAction (musicview/__init__.py) *)

\* the text documents, by identity
DocumentId(n) == "d" \o str(n)
DocumentIds == {DocumentId(n) : n \in 1..MaxDocuments}
NoDocument == ""                     \* None

\* the PDF documents a document group can have; updated is False for a PDF
\* older than its source
Pdf(filename, updated) == [filename |-> filename, updated |-> updated]
PdfLists ==
    {<< >>, <<Pdf("a.pdf", TRUE)>>, <<Pdf("a.pdf", FALSE), Pdf("a-1.pdf", TRUE)>>}

\* a call in progress on the action: its state and the signals emitted
ChooserCall(ch) == [chooser |-> ch, trace |-> << >>]
Signal(c, what) == [c EXCEPT !.trace = Append(@, what)]

\* documentsChanged is connected to MusicViewPanel.updateActions
documentsChanged(c) ==
    Signal([c EXCEPT !.chooser.music_print = c.chooser.documents # << >>],
           "documentsChanged")

\* index counts from 0
setCurrentIndex(c, index) ==
    IF c.chooser.documents # << >>
    THEN Signal([c EXCEPT !.chooser.currentIndex = index,
                          !.chooser.palette =
                              IF c.chooser.documents[index + 1].updated
                              THEN "base" ELSE "red"],
                "currentDocumentChanged")
    ELSE c

updateDocument(c) ==
    LET docs == c.chooser.groups[c.chooser.document]
        c1 == [c EXCEPT !.chooser.documents = docs,
                        !.chooser.visible = docs # << >>,
                        !.chooser.enabled = docs # << >>,
                        !.chooser.model = [i \in 1..Len(docs) |-> docs[i].filename]]
        stored == IF c.chooser.document \in DOMAIN c.chooser.indices
                  THEN c.chooser.indices[c.chooser.document] ELSE 0
        index == IF stored < 0 \/ stored >= Len(docs) THEN 0 ELSE stored
    IN  setCurrentIndex(documentsChanged(c1), index)

setCurrentDocument(c, document) ==
    LET prev == c.chooser.document
        c1 == Signal([c EXCEPT !.chooser.document = document], "setCurrentDocument")
        c2 == IF prev # NoDocument
              THEN [c1 EXCEPT !.chooser.indices =
                       [d \in DOMAIN @ \cup {prev} |->
                           IF d = prev THEN c.chooser.currentIndex ELSE @[d]]]
              ELSE c1
    IN  updateDocument(c2)

\* slotDocumentChanged that switches whenever the document is another one
slotDocumentChanged_always(c, doc) ==
    IF c.chooser.document = NoDocument \/ doc # c.chooser.document
    THEN setCurrentDocument(c, doc)
    ELSE c

slotDocumentChanged(c, doc) ==
    IF c.chooser.document = NoDocument \/ c.chooser.groups[doc] # << >>
    THEN setCurrentDocument(c, doc)
    ELSE c

\* engraving: the job was started on this main window for this document
slotDocumentUpdated(c, doc, engraving) ==
    IF doc = c.chooser.document \/ engraving
    THEN setCurrentDocument(c, doc)
    ELSE c

closeDocument(c) ==
    LET c1 == [c EXCEPT !.chooser.document = NoDocument,
                        !.chooser.documents = << >>,
                        !.chooser.currentIndex = 0 - 1,
                        !.chooser.visible = FALSE,
                        !.chooser.enabled = FALSE]
    IN  documentsChanged(Signal(c1, "documentClosed"))

\* the action as DocumentChooserAction.__init__ leaves it; no document has
\* a PDF yet and none is closed
NewChooser ==
    chooser = [document |-> NoDocument,
               documents |-> << >>,
               currentIndex |-> 0 - 1,
               indices |-> [d \in {} |-> 0],
               model |-> << >>,
               visible |-> TRUE,
               enabled |-> TRUE,
               palette |-> "base",
               music_print |-> TRUE,
               groups |-> [d \in DocumentIds |-> << >>],
               closed |-> {}]

---------------------------------------------------------------------------
(* The calls a client makes *)

Returns(op, r) ==
    /\ xml' = r.obj
    /\ last' = [op |-> op, exc |-> r.exc, ret |-> r.ret]
    /\ given' = given
    /\ app' = app
    /\ panel' = panel
    /\ chooser' = chooser

create_part_call(name) == Returns("create_part", create_part(Call(xml), name))

create_measure_call == Returns("create_measure", create_measure(Call(xml)))

new_note_call(pitch, org_len, durtype, divs) ==
    Returns("new_note", new_note(Call(xml), pitch, org_len, durtype, divs))

tuplet_note_call(fraction, org_len, ttype, divs) ==
    Returns("tuplet_note", tuplet_note(Call(xml), fraction, org_len, ttype, divs))

new_bar_attr_call(clef, mustime, key, mode, divs) ==
    Returns("new_bar_attr", new_bar_attr(Call(xml), clef, mustime, key, mode, divs))

create_xmldoc_call == Returns("create_xmldoc", create_xmldoc(Call(xml)))

\* the elements of the tree that calls have added
Size(root) ==
    Count(root, "part") + Count(root, "measure") + Count(root, "note")
        + Count(root, "attributes") + Count(root, "time-modification")

NewBuilder ==
    /\ xml = init
    /\ last = [op |-> "__init__", exc |-> NoExc, ret |-> NoRet]

Init == NewBuilder /\ given = ScoreArguments /\ NewApplication /\ NewPanel /\ NewChooser

CreatePart ==
    /\ Size(xml.root) < MaxElements
    /\ \E name \in given.names : create_part_call(name)

CreateMeasure ==
    /\ Size(xml.root) < MaxElements
    /\ create_measure_call

NewNote ==
    /\ Size(xml.root) < MaxElements
    /\ \E pitch \in given.pitches, org_len \in given.lengths,
          durtype \in given.durtypes, divs \in given.divisions :
          new_note_call(pitch, org_len, durtype, divs)

TupletNote ==
    /\ Size(xml.root) < MaxElements
    /\ \E fraction \in given.fractions, org_len \in given.lengths,
          ttype \in given.ttypes, divs \in given.divisions :
          tuplet_note_call(fraction, org_len, ttype, divs)

NewBarAttr ==
    /\ Size(xml.root) < MaxElements
    /\ \E clef \in given.clefs, mustime \in given.times, key \in given.keys,
          mode \in given.modes, divs \in given.divisions :
          new_bar_attr_call(clef, mustime, key, mode, divs)

CreateXmldoc == create_xmldoc_call

Next ==
    \/ CreatePart
    \/ CreateMeasure
    \/ NewNote
    \/ TupletNote
    \/ NewBarAttr
    \/ CreateXmldoc

Spec == Init /\ [][Next]_vars

InitNotes == NewBuilder /\ given \in NoteArguments /\ NewApplication /\ NewPanel /\ NewChooser

SpecNotes == InitNotes /\ [][Next]_vars

InitTuplets == NewBuilder /\ given \in TupletArguments /\ NewApplication /\ NewPanel /\ NewChooser

SpecTuplets == InitTuplets /\ [][Next]_vars

InitAttrs == NewBuilder /\ given \in AttrArguments /\ NewApplication /\ NewPanel /\ NewChooser

SpecAttrs == InitAttrs /\ [][Next]_vars

---------------------------------------------------------------------------
(* Reading the tree *)

Kids(node, tag) == SelectSeq(node.kids, LAMBDA k : k.tag = tag)

Attrib(node, key) ==
    LET i == CHOOSE i \in 1..Len(node.attrib) : node.attrib[i][1] = key
    IN  node.attrib[i][2]

Tags(node) == [i \in 1..Len(node.kids) |-> node.kids[i].tag]

\* node has a child with this tag and this text
KidWithText(node, tag, text) ==
    \E i \in 1..Len(node.kids) : node.kids[i].tag = tag /\ node.kids[i].text = text

\* node has a child with tag1 that has a child with tag2 and this text
GrandKidWithText(node, tag1, tag2, text) ==
    \E i \in 1..Len(node.kids) :
        node.kids[i].tag = tag1 /\ KidWithText(node.kids[i], tag2, text)

Parts == Kids(xml.root, "part")
ScoreParts == Kids(At(xml.root, xml.partlist), "score-part")

---------------------------------------------------------------------------
(* Part ids *)

\* C1: the k-th create_part call gives its part the id "P" followed by k,
\* whatever names are passed (the same name twice included) and whatever
\* create_measure and new_note calls are made in between: the ids of the
\* part elements, in document order, are P1, P2, P3, ...; no id is used twice.
C1_PartIdsInCallOrder ==
    /\ \A i \in 1..Len(Parts) :
          /\ Attrib(Parts[i], "id") = "P" \o str(i)
          /\ i = 1 => Attrib(Parts[i], "id") = "P1"
          /\ i = 2 => Attrib(Parts[i], "id") = "P2"
          /\ i = 3 => Attrib(Parts[i], "id") = "P3"
    /\ \A i, j \in 1..Len(Parts) :
          i # j => Attrib(Parts[i], "id") # Attrib(Parts[j], "id")

\* three parts, the first two with the same name, a measure and a note in between
C1_Witness ==
    /\ Len(Parts) = 3
    /\ Attrib(Parts[3], "id") = "P3"
    /\ Kids(ScoreParts[1], "part-name")[1].text = Kids(ScoreParts[2], "part-name")[1].text
    /\ Count(Parts[1], "note") = 1

\* C2: in every part the j-th measure carries number j: create_measure
\* numbers the measures 1, 2, 3, ... and create_part restarts at 1.
C2_MeasuresNumberedPerPart ==
    \A i \in 1..Len(Parts) :
        LET measures == Kids(Parts[i], "measure")
        IN  \A j \in 1..Len(measures) :
               /\ Attrib(measures[j], "number") = str(j)
               /\ j = 1 => Attrib(measures[j], "number") = "1"
               /\ j = 2 => Attrib(measures[j], "number") = "2"

\* two measures in the first part, then a measure numbered 1 in the second
C2_Witness ==
    /\ Len(Parts) = 2
    /\ Len(Kids(Parts[1], "measure")) = 2
    /\ Len(Kids(Parts[2], "measure")) = 1
    /\ Attrib(Kids(Parts[2], "measure")[1], "number") = "1"

\* C3: the root holds exactly one part-list; its score-part entries and the
\* part elements of the root correspond one to one, in the same order, with
\* the same ids; there are as many of each as create_part calls were made.
C3_PartListMatchesParts ==
    /\ Len(Kids(xml.root, "part-list")) = 1
    /\ Count(xml.root, "part-list") = 1
    /\ At(xml.root, xml.partlist).tag = "part-list"
    /\ Len(ScoreParts) = xml.part_count - 1
    /\ Len(Parts) = xml.part_count - 1
    /\ Count(xml.root, "score-part") = Len(ScoreParts)
    /\ Count(xml.root, "part") = Len(Parts)
    /\ \A i \in 1..Len(Parts) : Attrib(ScoreParts[i], "id") = Attrib(Parts[i], "id")

\* two parts, each with its score-part
C3_Witness ==
    /\ xml.part_count = 3
    /\ Len(ScoreParts) = 2
    /\ Attrib(ScoreParts[2], "id") = "P2"
    /\ Attrib(Parts[2], "id") = "P2"

---------------------------------------------------------------------------
(* Notes.  In SpecNotes and SpecTuplets every call of a run passes the one *)
(* value given for each parameter.                                         *)

\* the builder has a current measure
HasCurrentBar == "current_bar" \in DOMAIN xml

\* the current note is the last child of the current measure
CurrentNoteIsLastOfBar ==
    /\ "current_note" \in DOMAIN xml
    /\ xml.current_note = xml.current_bar \o <<Len(At(xml.root, xml.current_bar).kids)>>

\* the current note has a duration element
CurrentNoteHasDuration ==
    /\ "current_note" \in DOMAIN xml
    /\ Len(Kids(At(xml.root, xml.current_note), "duration")) = 1

\* C4: new_note called (in a measure) with a pitch, a positive note length
\* and positive divisions returns normally, and the note it has appended
\* has one duration element whose text is the numeral of
\* divisions * 4 / noteLength; noteLength 4, divisions 4 gives 4 and
\* noteLength 8, divisions 4 gives 2.
C4_NoteDuration ==
    \A pitch \in given.pitches, org_len \in given.lengths, divs \in given.divisions :
        ( /\ last.op = "new_note"
          /\ HasCurrentBar
          /\ pitch # None /\ org_len # "0" /\ divs > 0 ) =>
           /\ last.exc = NoExc
           /\ CurrentNoteIsLastOfBar
           /\ LET durations == Kids(At(xml.root, xml.current_note), "duration")
              IN  /\ Len(durations) = 1
                  /\ \E q \in 0..(4 * divs) :
                        /\ q * int(org_len) = 4 * divs
                        /\ durations[1].text = str(q)
                  /\ org_len = "4" /\ divs = 4 => durations[1].text = "4"
                  /\ org_len = "8" /\ divs = 4 => durations[1].text = "2"

\* a note of length 8 with 4 divisions: its duration is 2
C4_Witness ==
    /\ given.lengths = {"8"}
    /\ given.divisions = {4}
    /\ last.op = "new_note"
    /\ last.exc = NoExc
    /\ KidWithText(At(xml.root, xml.current_note), "duration", "2")

\* C5: tuplet_note with ratio (actualNotes, normalNotes), the note length
\* and actualNotes positive, called when the current note has a duration,
\* returns normally and sets that duration to the integer quotient of
\* divisions * 4 * normalNotes by noteLength * actualNotes, any remainder
\* dropped: ratio (3,2), note length 8 gives 4 with 12 divisions (96/24)
\* and 1 with 4 divisions (32/24).
C5_TupletDuration ==
    \A fraction \in given.fractions, org_len \in given.lengths, divs \in given.divisions :
        ( /\ last.op = "tuplet_note"
          /\ CurrentNoteHasDuration
          /\ fraction[1] # "0" /\ org_len # "0" ) =>
           /\ last.exc = NoExc
           /\ LET durations == Kids(At(xml.root, xml.current_note), "duration")
                  a == divs * 4 * int(fraction[2])
                  b == int(org_len) * int(fraction[1])
              IN  /\ \E q \in 0..a :
                        /\ q * b <= a
                        /\ a < (q + 1) * b
                        /\ durations[1].text = str(q)
                  /\ fraction = <<"3", "2">> /\ org_len = "8" /\ divs = 12
                        => durations[1].text = "4"
                  /\ fraction = <<"3", "2">> /\ org_len = "8" /\ divs = 4
                        => durations[1].text = "1"

\* a triplet of length 8 with 4 divisions: its duration is 1, 32/24 less the remainder
C5_Witness ==
    /\ given.fractions = {<<"3", "2">>}
    /\ given.lengths = {"8"}
    /\ given.divisions = {4}
    /\ last.op = "tuplet_note"
    /\ last.exc = NoExc
    /\ LET note == At(xml.root, xml.current_note)
       IN  /\ KidWithText(note, "duration", "1")
           /\ GrandKidWithText(note, "time-modification", "actual-notes", "3")

\* C6: a note that a new_note call returning normally has added has an
\* accidental child exactly when the alteration of its pitch is not zero,
\* with text "sharp" for every alteration above zero and "flat" for every
\* alteration below; its pitch has an alter child exactly when the
\* alteration is not zero.
C6_Accidental ==
    \A pitch \in given.pitches :
        (last.op = "new_note" /\ last.exc = NoExc) =>
           /\ CurrentNoteIsLastOfBar
           /\ LET note == At(xml.root, xml.current_note)
                  accidentals == Kids(note, "accidental")
                  pitches == Kids(note, "pitch")
              IN  /\ Len(pitches) = 1
                  /\ Len(accidentals) = (IF pitch[2] # 0 THEN 1 ELSE 0)
                  /\ pitch[2] > 0 => accidentals[1].text = "sharp"
                  /\ pitch[2] < 0 => accidentals[1].text = "flat"
                  /\ Len(Kids(pitches[1], "alter")) = (IF pitch[2] # 0 THEN 1 ELSE 0)

\* a flat: the note has an alter of -1 and an accidental "flat"
C6_Witness ==
    /\ given.pitches = {<<"B", 0 - 1, 3>>}
    /\ last.op = "new_note"
    /\ last.exc = NoExc
    /\ LET note == At(xml.root, xml.current_note)
       IN  /\ GrandKidWithText(note, "pitch", "alter", "-1")
           /\ KidWithText(note, "accidental", "flat")

---------------------------------------------------------------------------
(* Measure attributes.  In SpecAttrs every new_bar_attr call of a run      *)
(* passes the one value given for each parameter.                          *)

\* the children new_bar_attr is to emit for its arguments, in schema order
AttrTags(clef, mustime, key, divs) ==
    (IF divs # 0 THEN <<"divisions">> ELSE << >>)
        \o (IF key >= 0 THEN <<"key">> ELSE << >>)
        \o (IF mustime # None THEN <<"time">> ELSE << >>)
        \o (IF clef # None THEN <<"clef">> ELSE << >>)

\* C7: new_bar_attr (in a measure) returns normally and appends an
\* attributes element to the current measure, with a divisions child iff
\* divisions is given and not zero, a key child iff key >= 0, a time child
\* iff a time signature is given and a clef child iff a clef is given, in
\* the order divisions, key, time, clef; with only the clef given the
\* attributes element has the clef as its only child.
C7_BarAttributes ==
    \A clef \in given.clefs, mustime \in given.times, key \in given.keys,
       divs \in given.divisions :
        (last.op = "new_bar_attr" /\ HasCurrentBar) =>
           /\ last.exc = NoExc
           /\ LET kids == At(xml.root, xml.current_bar).kids
              IN  /\ Len(kids) >= 1
                  /\ xml.bar_attr = xml.current_bar \o <<Len(kids)>>
                  /\ kids[Len(kids)].tag = "attributes"
                  /\ Tags(kids[Len(kids)]) = AttrTags(clef, mustime, key, divs)
                  /\ (clef # None /\ mustime = None /\ key < 0 /\ divs = 0)
                        => Tags(kids[Len(kids)]) = <<"clef">>
                  /\ key = 0 => Len(Kids(kids[Len(kids)], "key")) = 1

\* key 0 and a clef given, no time signature and no divisions
C7_Witness ==
    /\ given.keys = {0}
    /\ given.times = {None}
    /\ given.divisions = {0}
    /\ last.op = "new_bar_attr"
    /\ last.exc = NoExc
    /\ LET attrs == Kids(At(xml.root, xml.current_bar), "attributes")
       IN  /\ Len(attrs) >= 1
           /\ Tags(attrs[1]) = <<"key", "clef">>
           /\ GrandKidWithText(attrs[1], "key", "fifths", "0")

---------------------------------------------------------------------------
(* The document *)

EmptyDocument ==
    "<?xml version='1.0' encoding='UTF-8'?>\n"
        \o "<score-partwise version=\"3.0\">\n"
        \o "  <identification>\n"
        \o "    <encoding>\n"
        \o "      <software>Frescobaldi</software>\n"
        \o "      <encoding-date/>\n"
        \o "    </encoding>\n"
        \o "  </identification>\n"
        \o "  <part-list/>\n"
        \o "</score-partwise>\n"

\* the tree has no part: an empty part-list and no part element
NoPart(root) ==
    /\ Len(Kids(root, "part-list")) = 1
    /\ Kids(root, "part-list")[1].kids = << >>
    /\ Count(root, "part") = 0
    /\ Count(root, "measure") = 0

\* C8: right after __init__ the tree is a score-partwise root of version
\* "3.0" whose identification/encoding/software text is "Frescobaldi", with
\* an empty part-list and no part; create_xmldoc on the builder as __init__
\* left it returns normally, with the document of exactly that tree.
C8_InitialDocument ==
    /\ last.op = "__init__" =>
          /\ xml.root.tag = "score-partwise"
          /\ xml.root.attrib = <<<<"version", "3.0">>>>
          /\ Len(Kids(xml.root, "identification")) = 1
          /\ GrandKidWithText(Kids(xml.root, "identification")[1],
                              "encoding", "software", "Frescobaldi")
          /\ NoPart(xml.root)
    /\ (last.op = "create_xmldoc" /\ xml = init) =>
          /\ last.exc = NoExc
          /\ last.ret = EmptyDocument

\* create_xmldoc has been called on a builder as __init__ left it
C8_Witness ==
    /\ last.op = "create_xmldoc"
    /\ xml = init
    /\ last.ret = EmptyDocument

\* C9: create_xmldoc can be called in every state, returns normally and
\* changes nothing: the tree, the part and measure counters and the current
\* part, measure and note are the same after the call as before; it returns
\* the document of the tree, so a second call right after returns the same.
C9_SerializeChangesNothing ==
    /\ [](ENABLED CreateXmldoc)
    /\ [][last'.op = "create_xmldoc" =>
             /\ xml' = xml
             /\ last'.exc = NoExc
             /\ last'.ret = tostring(xml.root)
             /\ last.op = "create_xmldoc" => last'.ret = last.ret
         ]_vars

\* create_xmldoc has been called on a score with a part, a measure and a note
C9_Witness ==
    /\ last.op = "create_xmldoc"
    /\ last.exc = NoExc
    /\ last.ret # EmptyDocument
    /\ "current_note" \in DOMAIN xml
    /\ Count(xml.root, "note") >= 1

\* C10: create_measure called before any create_part raises AttributeError
\* and leaves the builder as it was: no measure is added and the tree still
\* has an empty part-list and no part.
C10_MeasureBeforePart ==
    [][(xml.part_count = 1 /\ last'.op = "create_measure") =>
          /\ last'.exc = AttributeError
          /\ xml' = xml
          /\ NoPart(xml'.root)
      ]_vars

\* create_measure has failed on a builder without a part
C10_Witness ==
    /\ last.op = "create_measure"
    /\ last.exc = AttributeError
    /\ xml.part_count = 1
    /\ "current_part" \notin DOMAIN xml

---------------------------------------------------------------------------
(* The cursors: current part, current measure, current note *)

\* no create_measure has succeeded since the last create_part
NoMeasureSincePart ==
    "current_part" \in DOMAIN xml => At(xml.root, xml.current_part).kids = << >>

\* the current measure is a measure of the current part
BarInCurrentPart ==
    /\ HasCurrentBar
    /\ Len(xml.current_bar) = Len(xml.current_part) + 1
    /\ SubSeq(xml.current_bar, 1, Len(xml.current_part)) = xml.current_part

\* no new_note has been called since the last create_measure or create_part
NoNoteSinceMeasure ==
    \/ last.op \in {"create_part", "create_measure"} /\ last.exc = NoExc
    \/ ~HasCurrentBar
    \/ BarInCurrentPart /\ Kids(At(xml.root, xml.current_bar), "note") = << >>

\* C11: new_note or new_bar_attr called after create_part and before the
\* next create_measure fails and adds nothing to the tree, so that no note
\* and no attributes element goes to a measure of an earlier part.
C11_NotesInCurrentPart ==
    [][(last'.op \in {"new_note", "new_bar_attr"} /\ NoMeasureSincePart) =>
          /\ last'.exc # NoExc
          /\ xml'.root = xml.root
      ]_vars

\* C12: tuplet_note called after create_measure or create_part and before
\* the next new_note fails and changes no note: it neither rewrites the
\* duration of a note of an earlier measure or part nor appends to it.
C12_TupletOnlyOnNewNote ==
    [][(last'.op = "tuplet_note" /\ NoNoteSinceMeasure) =>
          /\ last'.exc # NoExc
          /\ xml'.root = xml.root
      ]_vars

---------------------------------------------------------------------------
(* Rests and zero arguments *)

\* C13: new_note with pitch None (a rest), called in a measure with a
\* positive note length, returns normally and the note it has appended has
\* no pitch and no accidental child, but has the duration and the type.
C13_Rest ==
    \A pitch \in given.pitches, org_len \in given.lengths, divs \in given.divisions,
       durtype \in given.durtypes :
        ( /\ last.op = "new_note"
          /\ HasCurrentBar
          /\ pitch = None /\ org_len # "0" ) =>
           /\ last.exc = NoExc
           /\ CurrentNoteIsLastOfBar
           /\ LET note == At(xml.root, xml.current_note)
              IN  /\ Kids(note, "pitch") = << >>
                  /\ Kids(note, "accidental") = << >>
                  /\ \E q \in 0..(4 * divs) :
                        /\ q * int(org_len) <= 4 * divs
                        /\ 4 * divs < (q + 1) * int(org_len)
                        /\ KidWithText(note, "duration", str(q))
                  /\ KidWithText(note, "type", durtype)

\* C14: new_note called (in a measure, with a pitch) with note length 0
\* raises ZeroDivisionError, whatever the divisions, and the note is left
\* without a duration; tuplet_note called with note length 0 or with 0
\* actual notes raises ZeroDivisionError and modifies no note.
C14_ZeroLength ==
    \A pitch \in given.pitches, fraction \in given.fractions,
       org_len \in given.lengths :
        /\ ( /\ last.op = "new_note"
             /\ HasCurrentBar
             /\ pitch # None /\ org_len = "0" ) =>
              /\ last.exc = ZeroDivisionError
              /\ CurrentNoteIsLastOfBar
              /\ Kids(At(xml.root, xml.current_note), "duration") = << >>
              /\ Count(xml.root, "duration") = 0
        /\ ( /\ last.op = "tuplet_note"
             /\ (org_len = "0" \/ fraction[1] = "0") ) =>
              /\ last.exc = ZeroDivisionError
              /\ Count(xml.root, "time-modification") = 0
              /\ Count(xml.root, "notations") = 0

\* a tuplet of 0 actual notes has been asked of a note that has a duration
C14_Witness ==
    /\ given.fractions = {<<"0", "2">>}
    /\ given.lengths = {"8"}
    /\ last.op = "tuplet_note"
    /\ last.exc = ZeroDivisionError
    /\ CurrentNoteHasDuration

\* C15 as claimed: new_note (in a measure, with a pitch) or tuplet_note (on
\* a note that has a duration) called with 0 divisions, the note length and
\* the actual notes positive, raises ZeroDivisionError, and no duration is
\* stored in the tree.
C15_ZeroDivisionsFault ==
    \A pitch \in given.pitches, fraction \in given.fractions,
       org_len \in given.lengths, divs \in given.divisions :
        (divs = 0 /\ pitch # None /\ org_len # "0" /\ fraction[1] # "0") =>
            /\ (last.op = "new_note" /\ HasCurrentBar) =>
                  last.exc = ZeroDivisionError
            /\ (last.op = "tuplet_note" /\ CurrentNoteHasDuration) =>
                  last.exc = ZeroDivisionError
            /\ Count(xml.root, "duration") = 0

\* C15 as amended: new_note or tuplet_note called with 0 divisions, the
\* note length and the actual notes positive, never raises
\* ZeroDivisionError; a new_note call that returns normally has given its
\* note the duration "0", and a tuplet_note call that returns normally has
\* set the duration it rewrites to "0".
C15_ZeroDivisionsZeroDuration ==
    \A fraction \in given.fractions, org_len \in given.lengths,
       divs \in given.divisions :
        (divs = 0 /\ org_len # "0" /\ fraction[1] # "0") =>
            /\ last.op \in {"new_note", "tuplet_note"} =>
                  last.exc # ZeroDivisionError
            /\ (last.op = "new_note" /\ HasCurrentBar /\ given.pitches # {None}) =>
                  last.exc = NoExc
            /\ (last.op = "new_note" /\ last.exc = NoExc) =>
                  /\ CurrentNoteIsLastOfBar
                  /\ Tags(At(xml.root, xml.current_note))
                        \in {<<"pitch", "duration", "type">>,
                             <<"pitch", "duration", "type", "accidental">>}
                  /\ KidWithText(At(xml.root, xml.current_note), "duration", "0")
            /\ (last.op = "tuplet_note" /\ last.exc = NoExc) =>
                  /\ At(xml.root, xml.duration).tag = "duration"
                  /\ At(xml.root, xml.duration).text = "0"

\* a tuplet with 0 divisions has left the note with duration 0
C15_Witness ==
    /\ given.divisions = {0}
    /\ given.lengths = {"8"}
    /\ given.fractions = {<<"3", "2">>}
    /\ last.op = "tuplet_note"
    /\ last.exc = NoExc
    /\ KidWithText(At(xml.root, xml.current_note), "duration", "0")
    /\ Count(xml.root, "time-modification") >= 1

---------------------------------------------------------------------------
(* Attributes per measure *)

RECURSIVE Measures(_)
\* the measure elements of a sequence of parts
Measures(parts) ==
    IF parts = << >> THEN << >>
    ELSE Kids(Head(parts), "measure") \o Measures(Tail(parts))

\* C16: every measure has at most one attributes child, also when
\* new_bar_attr is called twice between two create_measure calls.
C16_OneAttributesPerMeasure ==
    \A i \in 1..Len(Measures(Parts)) :
        Len(Kids(Measures(Parts)[i], "attributes")) <= 1

---------------------------------------------------------------------------
(* Tuplets *)

\* C17: a tuplet_note call that returns normally has appended to the
\* current note a time-modification whose actual-notes and normal-notes are
\* the two members of the ratio; if a tuplet type is given it has appended
\* after it a notations element with one tuplet child whose type attribute
\* is the tuplet type; if the tuplet type is empty it has appended no
\* notations element, and the note has none.
C17_TupletElements ==
    \A fraction \in given.fractions, ttype \in given.ttypes :
        (last.op = "tuplet_note" /\ last.exc = NoExc) =>
            LET kids == At(xml.root, xml.current_note).kids
                n == Len(kids)
                timemod == IF ttype # "" THEN n - 1 ELSE n
            IN  /\ timemod >= 1
                /\ kids[timemod].tag = "time-modification"
                /\ Tags(kids[timemod]) = <<"actual-notes", "normal-notes">>
                /\ kids[timemod].kids[1].text = fraction[1]
                /\ kids[timemod].kids[2].text = fraction[2]
                /\ ttype # "" =>
                      /\ kids[n].tag = "notations"
                      /\ Tags(kids[n]) = <<"tuplet">>
                      /\ kids[n].kids[1].attrib = <<<<"type", ttype>>>>
                      /\ xml.current_notation = xml.current_note \o <<n>>
                /\ ttype = "" =>
                      Count(xml.root, "notations") = 0

\* a tuplet without a type: a time-modification and no notations
C17_Witness ==
    /\ given.ttypes = {""}
    /\ last.op = "tuplet_note"
    /\ last.exc = NoExc
    /\ LET note == At(xml.root, xml.current_note)
       IN  /\ GrandKidWithText(note, "time-modification", "actual-notes", "3")
           /\ GrandKidWithText(note, "time-modification", "normal-notes", "2")
           /\ Kids(note, "notations") = << >>

---------------------------------------------------------------------------
(* The calls made on documents *)

Urls == {EmptyUrl, QUrl("file", "/a.ly"), QUrl("http", "/a.ly")}
Texts == {<<233>>}

DocumentReturns(op, d, url, c) ==
    /\ \A o \in DOMAIN c.app.objects : c.app.objects[o].num <= MaxNumber
    /\ app.calls < MaxCalls
    /\ app' = [c.app EXCEPT !.calls = @ + 1]
    /\ last' = [op |-> op, exc |-> c.exc, ret |-> NoRet, doc |-> d, url |-> url,
                trace |-> c.trace]
    /\ UNCHANGED <<xml, given, panel, chooser>>

NewDocument ==
    /\ Len(app.documents) < MaxDocuments
    /\ \E url \in Urls \cup {NoUrl}, enc \in given.encodings :
          LET n == CHOOSE n \in 1..MaxDocuments :
                      /\ DocumentId(n) \notin Open(app)
                      /\ \A m \in 1..(n - 1) : DocumentId(m) \in Open(app)
              d == DocumentId(n)
          IN  DocumentReturns("Document", d, url, Document(AppCall(app), d, url, enc))

Close ==
    \E d \in Open(app) : DocumentReturns("close", d, NoUrl, close(AppCall(app), d))

Load ==
    \E d \in Open(app), url \in Urls \cup {NoUrl}, keepUndo \in BOOLEAN :
        DocumentReturns("load", d, url, load(AppCall(app), d, url, keepUndo))

Save ==
    \E d \in Open(app), url \in Urls \cup {NoUrl} :
        \E written \in (0 - 1)..Len(encodedText(AppCall(app), d)) :
            DocumentReturns("save", d, url, save(AppCall(app), d, url, written))

SetUrl ==
    \E d \in Open(app), url \in Urls \cup {NoUrl} :
        DocumentReturns("setUrl", d, url, setUrl(AppCall(app), d, url))

\* the user types: the text changes and the document is modified
Edit ==
    \E d \in Open(app), text \in Texts :
        DocumentReturns("edit", d, NoUrl,
            setModified([AppCall(app) EXCEPT !.app.objects[d].text = text], d, TRUE))

NextDocuments ==
    \/ NewDocument
    \/ Close
    \/ Load
    \/ Save
    \/ SetUrl
    \/ Edit

\* every document of a run is made with the one encoding given
DocumentArguments ==
    { [ScoreArguments EXCEPT !.encodings = {enc}] : enc \in Encodings }

InitDocuments ==
    NewBuilder /\ given \in DocumentArguments /\ NewApplication /\ NewPanel /\ NewChooser

SpecDocuments == InitDocuments /\ [][NextDocuments]_vars

---------------------------------------------------------------------------
(* Loading and saving documents *)

\* what a load or save that fails before it starts must not have done
Effects ==
    {"setUrl", "urlChanged", "app.documentUrlChanged", "write",
     "app.documentModificationChanged", "loaded", "app.documentLoaded",
     "saved", "app.documentSaved"}

\* C18: load and save called with a url (the argument, or the current url
\* if the argument is None) that is not empty and is not a local file raise
\* IOError and leave the url, the number, the text and the modified flag of
\* every document and the files as they were, without calling setUrl and
\* without emitting loaded, saved, app.documentLoaded or app.documentSaved;
\* called with an empty url they return normally and do nothing.
C18_NonLocalUrl ==
    [][last'.op \in {"load", "save"} =>
          LET u == IF last'.url # NoUrl THEN last'.url
                   ELSE app.objects[last'.doc].url
          IN  /\ (~isEmpty(u) /\ toLocalFile(u) = "") =>
                    /\ last'.exc = IOError
                    /\ app'.objects = app.objects
                    /\ app'.documents = app.documents
                    /\ app'.files = app.files
                    /\ \A i \in 1..Len(last'.trace) : last'.trace[i] \notin Effects
              /\ isEmpty(u) =>
                    /\ last'.exc = NoExc
                    /\ last'.trace = << >>
                    /\ app'.objects = app.objects
                    /\ app'.documents = app.documents
                    /\ app'.files = app.files
      ]_vars

\* a modified document with a name has been asked to save to an http url
C18_Witness ==
    /\ last.op = "save"
    /\ last.url = QUrl("http", "/a.ly")
    /\ last.exc = IOError
    /\ app.objects[last.doc].modified
    /\ app.objects[last.doc].url = QUrl("file", "/a.ly")

---------------------------------------------------------------------------
(* The music view panel and the event loop *)

PanelDoes(p) ==
    /\ panel' = p
    /\ UNCHANGED <<xml, last, given, app, chooser>>

\* an action connected to a decorated slot is triggered
TriggerSlot ==
    /\ panel.calls < MaxSlotCalls
    /\ \E slot \in Slots, created \in BOOLEAN : PanelDoes(wrapper(panel, slot, created))

\* the event loop fires a zero-delay timer
TimerEvent ==
    /\ panel.timers # << >>
    /\ PanelDoes(timeout(panel))

\* the user shows the panel through its toggle action: the widget is created
ShowPanel ==
    /\ ~panel.visible
    /\ PanelDoes([widget(panel) EXCEPT !.visible = TRUE])

\* the user hides the panel
HidePanel ==
    /\ panel.visible
    /\ PanelDoes([panel EXCEPT !.visible = FALSE])

NextPanel ==
    \/ TriggerSlot
    \/ TimerEvent
    \/ ShowPanel
    \/ HidePanel

InitPanel == NewBuilder /\ given = ScoreArguments /\ NewApplication /\ NewPanel /\ NewChooser

\* the event loop keeps running: a pending timer is fired
SpecPanel == InitPanel /\ [][NextPanel]_vars /\ WF_vars(TimerEvent)

\* the places in the log where this happened in call nr
Where(what, nr) ==
    {i \in 1..Len(panel.log) : panel.log[i].what = what /\ panel.log[i].nr = nr}

\* call nr was made when the widget existed already
Instantiated(nr) == \E c \in Where("call", nr) : panel.log[c].widget

\* call nr has been made and has returned
Returned(nr) == Where("return", nr) # {}

\* C19: in every call of a decorated slot activate() is called before the
\* body runs; if the widget existed before the call the body runs once,
\* between activate() and the return of the call; if it did not, the body
\* does not run within the call but runs exactly once later, from the event
\* loop, after the call (and so the activation) has completed.
C19_ActivateBeforeBody ==
    /\ [](\A nr \in 1..MaxSlotCalls :
            /\ \A b \in Where("body", nr) : \E a \in Where("activate", nr) : a < b
            /\ Cardinality(Where("body", nr)) <= 1
            /\ (Returned(nr) /\ Instantiated(nr)) =>
                  \E b \in Where("body", nr) : \A r \in Where("return", nr) : b < r
            /\ ~Instantiated(nr) =>
                  \A b \in Where("body", nr) : \E r \in Where("return", nr) : r < b)
    /\ \A nr \in 1..MaxSlotCalls : Returned(nr) ~> (Where("body", nr) # {})

\* a slot was called before the widget existed, and its body has run from
\* the event loop after a later call ran its body at once
C19_Witness ==
    \E early, later \in 1..MaxSlotCalls :
        /\ early < later
        /\ ~Instantiated(early) /\ Returned(early)
        /\ Instantiated(later)
        /\ \E b1 \in Where("body", early), b2 \in Where("body", later) : b2 < b1

---------------------------------------------------------------------------
(* The document chooser and the signals it is connected to *)

ChooserReturns(op, doc, c) ==
    /\ chooser' = c.chooser
    /\ last' = [op |-> op, exc |-> NoExc, ret |-> NoRet, doc |-> doc,
                trace |-> c.trace]
    /\ UNCHANGED <<xml, given, app, panel>>

\* the main window changes its current document
SlotDocumentChanged ==
    \E doc \in DocumentIds \ chooser.closed :
        ChooserReturns("slotDocumentChanged", doc,
                       slotDocumentChanged(ChooserCall(chooser), doc))

\* a job on a document finishes and its group has new PDFs
SlotDocumentUpdated ==
    \E doc \in DocumentIds \ chooser.closed, pdfs \in PdfLists \ {<< >>},
       engraving \in BOOLEAN :
        ChooserReturns("slotDocumentUpdated", doc,
            slotDocumentUpdated(
                ChooserCall([chooser EXCEPT !.groups[doc] = pdfs]), doc, engraving))

\* the current document is loaded again: its loaded signal
Loaded ==
    /\ chooser.document # NoDocument
    /\ \E pdfs \in PdfLists :
          ChooserReturns("updateDocument", chooser.document,
              updateDocument(
                  ChooserCall([chooser EXCEPT !.groups[chooser.document] = pdfs])))

\* a document is closed: if it is the current one, its closed signal; the
\* weak dictionary of indices loses its entry
Closed ==
    \E doc \in DocumentIds \ chooser.closed :
        LET ch == [chooser EXCEPT !.closed = @ \cup {doc},
                                  !.indices = [d \in DOMAIN @ \ {doc} |-> @[d]]]
        IN  ChooserReturns("closed", doc,
                IF doc = chooser.document THEN closeDocument(ChooserCall(ch))
                ELSE ChooserCall(ch))

\* the user picks a PDF in the combobox
Activated ==
    \E index \in 0..(Len(chooser.documents) - 1) :
        ChooserReturns("setCurrentIndex", chooser.document,
                       setCurrentIndex(ChooserCall(chooser), index))

NextChooser ==
    \/ SlotDocumentChanged
    \/ SlotDocumentUpdated
    \/ Loaded
    \/ Closed
    \/ Activated

InitChooser ==
    NewBuilder /\ given = ScoreArguments /\ NewApplication /\ NewPanel /\ NewChooser

SpecChooser == InitChooser /\ [][NextChooser]_vars

\* C20: slotDocumentChanged(doc) switches the chooser to doc (calls
\* setCurrentDocument, after which doc is the current document and its PDFs
\* are the chooser's documents) if and only if the chooser has no current
\* document or the group of doc has a PDF; otherwise the current document,
\* the documents and the current index stay as they are and neither
\* currentDocumentChanged nor documentsChanged is emitted.
C20_SwitchOnlyWithPdfs ==
    [][last'.op = "slotDocumentChanged" =>
          LET doc == last'.doc
              emitted == {last'.trace[i] : i \in 1..Len(last'.trace)}
          IN  IF chooser.document = NoDocument \/ chooser.groups[doc] # << >>
              THEN /\ "setCurrentDocument" \in emitted
                   /\ "documentsChanged" \in emitted
                   /\ chooser'.document = doc
                   /\ chooser'.documents = chooser.groups[doc]
              ELSE /\ chooser'.document = chooser.document
                   /\ chooser'.documents = chooser.documents
                   /\ chooser'.currentIndex = chooser.currentIndex
                   /\ emitted = {}
      ]_vars

\* the main window went to a document without PDFs while the chooser shows
\* the PDFs of another document: the chooser stays
C20_Witness ==
    /\ last.op = "slotDocumentChanged"
    /\ last.trace = << >>
    /\ chooser.document # NoDocument
    /\ chooser.document # last.doc
    /\ chooser.documents # << >>
    /\ chooser.groups[last.doc] = << >>

---------------------------------------------------------------------------
(* The duration element of a note *)

\* the note elements of the tree
Notes ==
    LET measures == Measures(Parts)
    IN  UNION { {measures[i].kids[j] : j \in {k \in 1..Len(measures[i].kids) :
                                                measures[i].kids[k].tag = "note"}} :
                i \in 1..Len(measures) }

\* the duration element the builder keeps is a child of the current note
DurationOfCurrentNote ==
    /\ "current_note" \in DOMAIN xml
    /\ "duration" \in DOMAIN xml
    /\ Len(xml.duration) = Len(xml.current_note) + 1
    /\ SubSeq(xml.duration, 1, Len(xml.current_note)) = xml.current_note

\* C21: every note element has at most one duration child; a new_note call
\* that returns normally leaves the note it made with exactly one, and every
\* tuplet_note call that returns normally leaves the note whose duration
\* element the builder keeps with that one duration element, its text the
\* numeral of the tuplet's duration
\* (divisions * 4 * normalNotes over noteLength * actualNotes, the remainder
\* dropped), however many tuplet_note calls went before.
C21_OneDurationPerNote ==
    /\ \A note \in Notes : Len(Kids(note, "duration")) <= 1
    /\ (last.op = "new_note" /\ last.exc = NoExc) =>
          /\ DurationOfCurrentNote
          /\ Len(Kids(At(xml.root, xml.current_note), "duration")) = 1
    /\ (last.op = "tuplet_note" /\ last.exc = NoExc) =>
          LET note == At(xml.root, SubSeq(xml.duration, 1, Len(xml.duration) - 1))
              durations == Kids(note, "duration")
          IN  /\ note.tag = "note"
              /\ Len(durations) = 1
              /\ durations[1] = At(xml.root, xml.duration)
              /\ \E fraction \in given.fractions, org_len \in given.lengths,
                    divs \in given.divisions :
                    LET a == divs * 4 * int(fraction[2])
                        b == int(org_len) * int(fraction[1])
                    IN  \E q \in 0..a :
                           /\ q * b <= a
                           /\ a < (q + 1) * b
                           /\ durations[1].text = str(q)

\* a note made a tuplet twice: two time-modification children, one duration
C21_Witness ==
    /\ last.op = "tuplet_note"
    /\ last.exc = NoExc
    /\ DurationOfCurrentNote
    /\ LET note == At(xml.root, xml.current_note)
       IN  /\ Len(Kids(note, "time-modification")) = 2
           /\ Len(Kids(note, "duration")) = 1
           /\ KidWithText(note, "duration", "1")

---------------------------------------------------------------------------
(* The order of the steps of a save *)

\* C22: save to a local file (the url argument, or the current url if the
\* argument is None) that returns normally has written the whole encoded
\* text to the file first, then, only if a url was given, called setUrl
\* (with urlChanged if the url is another one), then cleared the modified
\* flag, then emitted saved and app.documentSaved, in this order and each
\* once; a save whose write fails raises IOError after at most the write:
\* the url, the number and the modified flag of the document are as they
\* were and neither saved nor app.documentSaved is emitted.
C22_SaveOrder ==
    [][last'.op = "save" =>
          LET d == last'.doc
              u == IF last'.url # NoUrl THEN last'.url ELSE app.objects[d].url
              filename == toLocalFile(u)
              urlSteps ==
                  IF last'.url = NoUrl THEN << >>
                  ELSE IF app.objects[d].url # last'.url
                  THEN <<"setUrl", "urlChanged", "app.documentUrlChanged">>
                  ELSE <<"setUrl">>
              modifiedSteps ==
                  IF app.objects[d].modified
                  THEN <<"app.documentModificationChanged">> ELSE << >>
          IN  (~isEmpty(u) /\ filename # "") =>
                 IF last'.exc = NoExc
                 THEN /\ last'.trace =
                            <<"app.documentSaving.enter", "write">> \o urlSteps
                               \o modifiedSteps
                               \o <<"saved", "app.documentSaved",
                                    "app.documentSaving.exit">>
                      /\ app'.files[filename] = encodedText(AppCall(app), d)
                      /\ app'.objects[d].url = u
                      /\ ~app'.objects[d].modified
                 ELSE /\ last'.exc = IOError
                      /\ last'.trace \in
                            {<<"app.documentSaving.enter", "app.documentSaving.exit">>,
                             <<"app.documentSaving.enter", "write",
                               "app.documentSaving.exit">>}
                      /\ app'.objects = app.objects
                      /\ app'.documents = app.documents
      ]_vars

\* a modified nameless document was saved to a file and the write broke
\* off: the document is still nameless and modified
C22_Witness ==
    /\ last.op = "save"
    /\ last.url = QUrl("file", "/a.ly")
    /\ last.exc = IOError
    /\ last.trace = <<"app.documentSaving.enter", "write", "app.documentSaving.exit">>
    /\ isEmpty(app.objects[last.doc].url)
    /\ app.objects[last.doc].modified

---------------------------------------------------------------------------
(* What a failed new_note leaves behind *)

\* the paths of the note elements of a tree
NotePaths(root) ==
    { p \in (1..Len(root.kids)) \X (1..MaxElements) \X (1..MaxElements) :
        /\ root.kids[p[1]].tag = "part"
        /\ p[2] <= Len(root.kids[p[1]].kids)
        /\ root.kids[p[1]].kids[p[2]].tag = "measure"
        /\ p[3] <= Len(root.kids[p[1]].kids[p[2]].kids)
        /\ root.kids[p[1]].kids[p[2]].kids[p[3]].tag = "note" }

\* the notes that have a pitch but neither a duration nor a type
Incomplete(root) ==
    { p \in NotePaths(root) :
        /\ Kids(At(root, p), "pitch") # << >>
        /\ Kids(At(root, p), "duration") = << >>
        /\ Kids(At(root, p), "type") = << >> }

\* C23: a new_note call that raises ZeroDivisionError (note length 0) has
\* appended a note element to the current measure and made it the current
\* note; the element has its pitch child and no duration, type or
\* accidental; such a note stays in the tree through every later call, and
\* create_xmldoc returns the serialisation of the tree it is in.
C23_FailedNoteStays ==
    [][ /\ (last'.op = "new_note" /\ last'.exc = ZeroDivisionError) =>
              /\ HasCurrentBar
              /\ xml'.current_bar = xml.current_bar
              /\ "current_note" \in DOMAIN xml'
              /\ xml'.current_note =
                    xml.current_bar \o <<Len(At(xml.root, xml.current_bar).kids) + 1>>
              /\ Len(At(xml'.root, xml.current_bar).kids)
                    = Len(At(xml.root, xml.current_bar).kids) + 1
              /\ Tags(At(xml'.root, xml'.current_note)) = <<"pitch">>
              /\ xml'.current_note \in Incomplete(xml'.root)
        /\ Incomplete(xml.root) \subseteq Incomplete(xml'.root)
        /\ last'.op = "create_xmldoc" =>
              /\ xml'.root = xml.root
              /\ last'.ret = tostring(xml.root)
      ]_vars

\* the tree has been serialised while its current note is one that a
\* failed new_note left: a pitch and nothing else
C23_Witness ==
    /\ last.op = "create_xmldoc"
    /\ last.ret = tostring(xml.root)
    /\ "current_note" \in DOMAIN xml
    /\ xml.current_note \in Incomplete(xml.root)
    /\ Tags(At(xml.root, xml.current_note)) = <<"pitch">>

---------------------------------------------------------------------------
(* The numbers of nameless documents *)

\* the open documents without a url
Nameless == {d \in Open(app) : isEmpty(app.objects[d].url)}

\* C24: every open document with a url has number 0, every open document
\* without one has a number of at least 1, and no two open documents
\* without a url have the same number; a document made without a url or
\* set to an empty url gets one more than the largest number among the
\* other open documents.
C24_NamelessNumbers ==
    /\ [](/\ \A d \in Open(app) \ Nameless : app.objects[d].num = 0
          /\ \A d \in Nameless : app.objects[d].num >= 1
          /\ \A d1, d2 \in Nameless :
                app.objects[d1].num = app.objects[d2].num => d1 = d2)
    /\ [][(/\ last'.op \in {"Document", "setUrl"}
           /\ last'.exc = NoExc
           /\ last'.url \in {NoUrl, EmptyUrl}) =>
              app'.objects[last'.doc].num =
                 Max({0} \cup {app.objects[o].num : o \in Open(app) \ {last'.doc}}) + 1
         ]_vars

\* two open nameless documents, the one set to an empty url again has
\* number 3 and the other number 2
C24_Witness ==
    /\ last.op = "setUrl"
    /\ last.url \in {NoUrl, EmptyUrl}
    /\ Cardinality(Nameless) = 2
    /\ last.doc \in Nameless
    /\ app.objects[last.doc].num = 3
    /\ \E d \in Nameless : app.objects[d].num = 2

---------------------------------------------------------------------------
(* The page layout mode and the orientation *)

\* a slot connected to an action group has run; the group has checked the
\* action that was triggered; was: the page layout mode before the call
LayoutDoes(op, action, p) ==
    /\ panel' = p
    /\ last' = [op |-> op, exc |-> NoExc, ret |-> NoRet, action |-> action,
                was |-> panel.pageLayoutMode]
    /\ UNCHANGED <<xml, given, app, chooser>>

SetPageLayoutMode ==
    \E action \in LayoutActions, created \in BOOLEAN :
        LayoutDoes("slotSetPageLayoutMode", action,
            slotSetPageLayoutMode(
                [panel EXCEPT !.checked = (@ \ LayoutActions) \cup {action}],
                action, created))

SetOrientation ==
    \E action \in OrientationActions, created \in BOOLEAN :
        LayoutDoes("slotSetOrientation", action,
            slotSetOrientation(
                [panel EXCEPT !.checked = (@ \ OrientationActions) \cup {action}],
                action, created))

NextLayout ==
    \/ SetPageLayoutMode
    \/ SetOrientation
    \/ TriggerSlot
    \/ TimerEvent
    \/ ShowPanel
    \/ HidePanel

\* the saved properties the panel can start with: not Horizontal with two pages
SavedProperties ==
    {pr \in [orientation : {Horizontal, Vertical}, pageLayoutMode : PageLayoutModes] :
        ~(pr.orientation = Horizontal /\ pr.pageLayoutMode \in TwoPages)}

InitLayout ==
    /\ NewBuilder /\ given = ScoreArguments /\ NewApplication /\ NewChooser
    /\ \E pr \in SavedProperties : panel = PanelWith(pr.orientation, pr.pageLayoutMode)

SpecLayout == InitLayout /\ [][NextLayout]_vars

\* C25: the view is never Horizontal with page layout mode double_left or
\* double_right; a slotSetPageLayoutMode call for a two-page layout leaves
\* that layout with Vertical orientation, and a slotSetOrientation call for
\* Horizontal made in a two-page layout leaves Horizontal with layout
\* "single" (made in another layout, it leaves the layout as it is).
C25_NoHorizontalTwoPages ==
    /\ [](~(panel.orientation = Horizontal /\ panel.pageLayoutMode \in TwoPages))
    /\ [][ /\ ( /\ last'.op = "slotSetPageLayoutMode"
                /\ last'.action \in {"music_two_pages_first_left",
                                     "music_two_pages_first_right"} ) =>
                  /\ panel'.pageLayoutMode =
                        (IF last'.action = "music_two_pages_first_left"
                         THEN "double_left" ELSE "double_right")
                  /\ panel'.orientation = Vertical
           /\ ( /\ last'.op = "slotSetOrientation"
                /\ last'.action = "music_horizontal" ) =>
                  /\ panel'.orientation = Horizontal
                  /\ panel'.pageLayoutMode =
                        (IF panel.pageLayoutMode \in TwoPages THEN "single"
                         ELSE panel.pageLayoutMode)
         ]_vars

\* Horizontal was chosen while the view showed two pages: the view is
\* Horizontal with single pages, and the actions are checked accordingly
C25_Witness ==
    /\ last.op = "slotSetOrientation"
    /\ last.action = "music_horizontal"
    /\ last.was \in TwoPages
    /\ panel.orientation = Horizontal
    /\ panel.pageLayoutMode = "single"
    /\ panel.checked = {"music_horizontal", "music_single_pages"}
    /\ panel.widget

===========================================================================
